---- MODULE Spec2Model ----
(***************************************************************************)
(* Model of spellbook_engine.parser.SpellbookParser: the render() pipeline *)
(* (fence segmentation, malformed-block detection, self-closing and        *)
(* content-wrapping block expansion, error presentation) over character    *)
(* sequences, with the registry and the Markdown transform as             *)
(* collaborators.                                                          *)
(*                                                                         *)
(* Text is a sequence of elements.  A source character c is the element    *)
(* Ch(c); a piece of HTML spliced in by the parser (a rendered block or an *)
(* error block) is one element with k # "ch".  Offsets are 1-based and     *)
(* spans are half open: the Python span (s, e) is [s+1, e+1) here.         *)
(***************************************************************************)
EXTENDS Integers, Sequences, FiniteSets, TLC

\* ------------------------------------------------------------------ bounds
MaxPieces == 4
MaxItems == 2

\* ------------------------------------------------------------ text elements
\* k: "ch" source character, "html" rendered block, "err" rendered
\* render_error block, "errfb" the literal fallback comment of _render_error;
\* v: the character or the block name; e: the error type; d: the fault
\* message handed over as content; body: the content given to the block.
Ch(c) == [k |-> "ch", v |-> c, e |-> "", d |-> "", body |-> <<>>]

\* the backquote character (a string of the module cannot hold it)
BQ == "bq"

Str(s) == [i \in 1..Len(s) |-> Ch(s[i])]

\* \s of the regular expressions, over the characters of the model
IsWs(x) == x.k = "ch" /\ x.v \in {" ", "\n"}

\* \w of the regular expressions: letters, digits, underscore
IsWord(x) ==
  x.k = "ch" /\ x.v \in {"a", "b", "c", "e", "l", "m", "n", "o", "p", "s", "t", "x", "1", "_"}

At(t, i, c) == i >= 1 /\ i <= Len(t) /\ t[i] = Ch(c)

RECURSIVE SkipWs(_, _)
SkipWs(t, i) == IF i <= Len(t) /\ IsWs(t[i]) THEN SkipWs(t, i + 1) ELSE i

RECURSIVE WordEnd(_, _)
WordEnd(t, i) == IF i <= Len(t) /\ IsWord(t[i]) THEN WordEnd(t, i + 1) ELSE i

\* first index >= i holding "~", or 0
RECURSIVE FirstTilde(_, _)
FirstTilde(t, i) ==
  IF i > Len(t) THEN 0
  ELSE IF t[i] = Ch("~") THEN i ELSE FirstTilde(t, i + 1)

\* the characters t[i..j-1] as one string (group 1 of the tag patterns)
RECURSIVE NameOf(_, _, _)
NameOf(t, i, j) == IF i >= j THEN "" ELSE t[i].v \o NameOf(t, i + 1, j)

\* {~~} at i
ClosingAt(t, i) ==
  At(t, i, "{") /\ At(t, i + 1, "~") /\ At(t, i + 2, "~") /\ At(t, i + 3, "}")

\* opening_pattern {~\s*(\w+)\s*([^~]*?)\s*~} anchored at i: the exclusive
\* end of the match, or 0.  After the name the pattern admits only
\* characters other than "~" up to the terminator, so the match ends at the
\* first "~" after the name, which must be followed by "}".
OpeningEnd(t, i) ==
  IF ~(At(t, i, "{") /\ At(t, i + 1, "~")) THEN 0
  ELSE LET n == SkipWs(t, i + 2)
           w == WordEnd(t, n)
           p == FirstTilde(t, w)
       IN IF w = n \/ p = 0 \/ ~At(t, p + 1, "}") THEN 0 ELSE p + 2

\* self_closing_pattern {~\s*(\w+)\s*([^~]*?)\s*/~} anchored at i
SelfClosingEnd(t, i) ==
  IF ~(At(t, i, "{") /\ At(t, i + 1, "~")) THEN 0
  ELSE LET n == SkipWs(t, i + 2)
           w == WordEnd(t, n)
           p == FirstTilde(t, w)
       IN IF w = n \/ p = 0 \/ ~At(t, p + 1, "}") \/ p - 1 < w \/ ~At(t, p - 1, "/")
          THEN 0 ELSE p + 2

\* group 1 of a tag match anchored at i
TagName(t, i) ==
  LET n == SkipWs(t, i + 2) IN NameOf(t, n, WordEnd(t, n))

\* the exclusive end of t[a..p-1] with its trailing whitespace left out
RECURSIVE TrimEnd(_, _, _)
TrimEnd(t, a, p) == IF p > a /\ IsWs(t[p - 1]) THEN TrimEnd(t, a, p - 1) ELSE p

\* group 2 of a tag match anchored at i: the text after the name and the
\* whitespace that follows it, up to the whitespace before the terminator
\* ("~}", or "/~}" of a self-closing tag)
ArgsOf(t, i, isSelfClosing) ==
  LET Group(a, p) == SubSeq(t, a, TrimEnd(t, a, p) - 1)
      Named(w) == Group(SkipWs(t, w), FirstTilde(t, w) - (IF isSelfClosing THEN 1 ELSE 0))
  IN Named(WordEnd(t, SkipWs(t, i + 2)))

\* FirstClosing taking the last {~~} from i on (a greedy group 3)
RECURSIVE LastClosing(_, _)
LastClosing(t, i) ==
  IF i > Len(t) THEN 0
  ELSE LET r == LastClosing(t, i + 1)
       IN IF r # 0 THEN r ELSE IF ClosingAt(t, i) THEN i ELSE 0

\* first index >= i where {~~} starts, or 0
RECURSIVE FirstClosing(_, _)
FirstClosing(t, i) ==
  IF i > Len(t) THEN 0
  ELSE IF ClosingAt(t, i) THEN i ELSE FirstClosing(t, i + 1)

\* ---------------------------------------------------------------- finditer
\* re.finditer: leftmost non-overlapping matches, scanning resumes at the end
\* of each match.  kind selects the pattern.
MatchEnd(kind, t, i) ==
  CASE kind = "open"  -> OpeningEnd(t, i)
    [] kind = "self"  -> SelfClosingEnd(t, i)
    [] kind = "close" -> IF ClosingAt(t, i) THEN i + 4 ELSE 0

RECURSIVE FindIter(_, _, _)
FindIter(kind, t, i) ==
  LET From(m) ==
        IF m = 0 THEN FindIter(kind, t, i + 1)
        ELSE <<[type |-> kind, s |-> i, e |-> m,
                name |-> IF kind = "close" THEN "" ELSE TagName(t, i)]>>
             \o FindIter(kind, t, m)
  IN IF i > Len(t) THEN <<>> ELSE From(MatchEnd(kind, t, i))

\* list.sort(key=start): stable, ascending
RECURSIVE SortFrom(_, _, _)
SortFrom(xs, i, n) ==
  IF i > n THEN <<>>
  ELSE SelectSeq(xs, LAMBDA x : x.s = i) \o SortFrom(xs, i + 1, n)

\* SortDown in ascending order of start
SortDownAscending(xs, i) == SortFrom(xs, 1, i)

\* list.sort(key=start, reverse=True): stable, descending
RECURSIVE SortDown(_, _)
SortDown(xs, i) ==
  IF i < 1 THEN <<>>
  ELSE SelectSeq(xs, LAMBDA x : x.s = i) \o SortDown(xs, i - 1)

\* --------------------------------------------------------- _parse_arguments
\* [a-zA-Z_] and [\w-] of the key, [^\s"'=<>`] of an unquoted value
IsKeyStart(x) == IsWord(x) /\ x.v # "1"

IsKeyChar(x) == IsWord(x) \/ x = Ch("-")

IsUnquoted(x) == ~IsWs(x) /\ x.v \notin {"\"", "'", "=", "<", ">", BQ}

RECURSIVE KeyEnd(_, _)
KeyEnd(s, i) == IF i <= Len(s) /\ IsKeyChar(s[i]) THEN KeyEnd(s, i + 1) ELSE i

RECURSIVE UnquotedEnd(_, _)
UnquotedEnd(s, i) ==
  IF i <= Len(s) /\ IsUnquoted(s[i]) THEN UnquotedEnd(s, i + 1) ELSE i

\* FirstQuote with escape processing: a quote after a backslash is passed over
RECURSIVE FirstQuoteEscaped(_, _, _)
FirstQuoteEscaped(s, i, q) ==
  IF i > Len(s) THEN 0
  ELSE IF s[i] = Ch(q) /\ ~At(s, i - 1, "\\") THEN i ELSE FirstQuoteEscaped(s, i + 1, q)

\* first index >= i holding the quote character q, or 0
RECURSIVE FirstQuote(_, _, _)
FirstQuote(s, i, q) ==
  IF i > Len(s) THEN 0
  ELSE IF s[i] = Ch(q) THEN i ELSE FirstQuote(s, i + 1, q)

\* a keyword argument: True for a key without a value, or the value text
Flag == [flag |-> TRUE, text |-> ""]

Value(s, i, j) == [flag |-> FALSE, text |-> NameOf(s, i, j)]

\* the optional value part after a key that ends at j: the value and the
\* exclusive end of the match; without a value part the key is a flag
ValuePart(s, j) ==
  LET None == [val |-> Flag, e |-> j]
      Quoted(v, q) == IF q = 0 THEN None ELSE [val |-> Value(s, v + 1, q), e |-> q + 1]
      From(v) ==
        IF At(s, v, "\"") THEN Quoted(v, FirstQuote(s, v + 1, "\""))
        ELSE IF At(s, v, "'") THEN Quoted(v, FirstQuote(s, v + 1, "'"))
        ELSE IF v <= Len(s) /\ IsUnquoted(s[v])
        THEN [val |-> Value(s, v, UnquotedEnd(s, v)), e |-> UnquotedEnd(s, v)]
        ELSE None
      Equals(eq) == IF At(s, eq, "=") THEN From(SkipWs(s, eq + 1)) ELSE None
  IN Equals(SkipWs(s, j))

\* kwargs[key] = value
Put(kw, key, val) == [x \in DOMAIN kw \cup {key} |-> IF x = key THEN val ELSE kw[x]]

\* the loop over pattern.finditer(args_str), from index i on
RECURSIVE ArgsLoop(_, _, _)
ArgsLoop(s, i, kw) ==
  LET Matched(j, m) == ArgsLoop(s, m.e, Put(kw, NameOf(s, i, j), m.val))
      Key(j) == Matched(j, ValuePart(s, j))
  IN IF i > Len(s) THEN kw
     ELSE IF IsKeyStart(s[i]) THEN Key(KeyEnd(s, i + 1))
     ELSE ArgsLoop(s, i + 1, kw)

\* _parse_arguments: the dictionary of keyword arguments, as a function
ParseArguments(s) == IF SkipWs(s, 1) > Len(s) THEN <<>> ELSE ArgsLoop(s, 1, <<>>)

\* ---------------------------------------------------------------- registry
\* A registry maps a block name to what create_block and render do for it:
\*   "ok"          a block whose render() returns non-blank HTML
\*   "blank"       a block whose render() returns only whitespace
\*   "renderfault" a block whose render() raises
\*   "notemplate"  registered, but get_template raises (template not found)
\* and a name outside its domain is not registered.
GetBlock(reg, name) == name \in DOMAIN reg

\* "none", "raise" or "block"
CreateBlock(reg, name) ==
  IF ~GetBlock(reg, name) THEN "none"
  ELSE IF reg[name] = "notemplate" THEN "raise"
  ELSE "block"

\* registry.create_block(block_name, content=..., **kwargs) as the expander
\* calls it: a keyword argument named as a parameter of create_block cannot
\* be bound (TypeError), nor one named as a parameter the block class is
\* given by create_block
CallCreateBlock(reg, name, kw) ==
  IF DOMAIN kw \cap {"name", "content"} # {} THEN "raise"
  ELSE IF CreateBlock(reg, name) = "block" /\ "template" \in DOMAIN kw THEN "raise"
  ELSE CreateBlock(reg, name)

\* the message of the fault of a "raise"
CreateFault(reg, name, kw) ==
  IF DOMAIN kw \cap {"name", "content"} # {} THEN "TypeError"
  ELSE IF CreateBlock(reg, name) = "raise" THEN "TemplateNotFound"
  ELSE "TypeError"

\* one call of a collaborator: op "resolve" is registry.create_block for a
\* tag (body: the content handed over, kw: the keyword arguments), op
\* "present" is _render_error (e: the error type, d: the fault message
\* handed over)
LogEntry(op, name, et, d, body) ==
  [op |-> op, name |-> name, e |-> et, d |-> d, body |-> body, kw |-> <<>>]

\* _render_error: the fragment (a text), or the fault that escapes it
RenderError(reg, et, name, detail) ==
  LET c == CreateBlock(reg, "render_error") IN
  IF c = "raise" THEN [frag |-> <<>>, fault |-> TRUE, msg |-> "TemplateNotFound"]
  ELSE IF c = "none"
  THEN [frag |-> <<[k |-> "errfb", v |-> name, e |-> et, d |-> "", body |-> <<>>]>>,
        fault |-> FALSE, msg |-> ""]
  ELSE IF reg["render_error"] = "renderfault"
  THEN [frag |-> <<>>, fault |-> TRUE, msg |-> "RenderFault"]
  ELSE IF reg["render_error"] = "blank"
  THEN [frag |-> Str(<<"\n", "\n", "\n", "\n">>), fault |-> FALSE, msg |-> ""]
  ELSE [frag |-> <<[k |-> "err", v |-> name, e |-> et, d |-> detail, body |-> <<>>]>>,
        fault |-> FALSE, msg |-> ""]

\* ------------------------------------------------- _detect_malformed_blocks
\* OpenTags keeping the opening matches inside a self-closing span
OpenTagsAll(t) == FindIter("open", t, 1)

\* the opening matches that are not inside a self-closing span
OpenTags(t) ==
  LET Outside(sc) ==
        SelectSeq(FindIter("open", t, 1),
                  LAMBDA m : ~(\E j \in 1..Len(sc) : m.s >= sc[j].s /\ m.e <= sc[j].e))
  IN Outside(FindIter("self", t, 1))

\* tags after tags.sort(key=start): opening tags were appended first
Tags(t) == SortFrom(OpenTags(t) \o FindIter("close", t, 1), 1, Len(t))

\* Walk with a closing tag taking the oldest frame off the stack
RECURSIVE WalkFifo(_, _, _, _, _, _)
WalkFifo(reg, tags, i, stack, reps, log) ==
  IF i > Len(tags)
  THEN [stack |-> stack, reps |-> reps, log |-> log, fault |-> FALSE, msg |-> ""]
  ELSE IF tags[i].type = "open"
  THEN WalkFifo(reg, tags, i + 1, Append(stack, tags[i]), reps, log)
  ELSE IF stack = <<>>
  THEN LET r  == RenderError(reg, "orphaned_closing", "", "")
           lg == Append(log, LogEntry("present", "", "orphaned_closing", "", <<>>))
       IN IF r.fault
          THEN [stack |-> stack, reps |-> reps, log |-> lg, fault |-> TRUE, msg |-> r.msg]
          ELSE WalkFifo(reg, tags, i + 1, stack,
                        Append(reps, [s |-> tags[i].s, e |-> tags[i].e, rep |-> r.frag]), lg)
  ELSE WalkFifo(reg, tags, i + 1, Tail(stack), reps, log)

\* the walk over the sorted tags (the for loop with the stack); a fault of
\* _render_error leaves the loop at once
RECURSIVE Walk(_, _, _, _, _, _)
Walk(reg, tags, i, stack, reps, log) ==
  IF i > Len(tags)
  THEN [stack |-> stack, reps |-> reps, log |-> log, fault |-> FALSE, msg |-> ""]
  ELSE IF tags[i].type = "open"
  THEN Walk(reg, tags, i + 1, Append(stack, tags[i]), reps, log)
  ELSE IF stack = <<>>
  THEN LET r  == RenderError(reg, "orphaned_closing", "", "")
           lg == Append(log, LogEntry("present", "", "orphaned_closing", "", <<>>))
       IN IF r.fault
          THEN [stack |-> stack, reps |-> reps, log |-> lg, fault |-> TRUE, msg |-> r.msg]
          ELSE Walk(reg, tags, i + 1, stack,
                    Append(reps, [s |-> tags[i].s, e |-> tags[i].e, rep |-> r.frag]), lg)
  ELSE Walk(reg, tags, i + 1, SubSeq(stack, 1, Len(stack) - 1), reps, log)

\* Unclosed with the error block put at the start of the tag, not its end
RECURSIVE UnclosedAtStart(_, _, _, _, _)
UnclosedAtStart(reg, stack, i, reps, log) ==
  IF i > Len(stack)
  THEN [reps |-> reps, log |-> log, fault |-> FALSE, msg |-> ""]
  ELSE LET r  == RenderError(reg, "unclosed_block", stack[i].name, "")
           lg == Append(log, LogEntry("present", stack[i].name, "unclosed_block", "", <<>>))
       IN IF r.fault
          THEN [reps |-> reps, log |-> lg, fault |-> TRUE, msg |-> r.msg]
          ELSE UnclosedAtStart(reg, stack, i + 1,
                        Append(reps, [s |-> stack[i].s, e |-> stack[i].s, rep |-> r.frag]), lg)

\* the loop over what is left on the stack, bottom first
RECURSIVE Unclosed(_, _, _, _, _)
Unclosed(reg, stack, i, reps, log) ==
  IF i > Len(stack)
  THEN [reps |-> reps, log |-> log, fault |-> FALSE, msg |-> ""]
  ELSE LET r  == RenderError(reg, "unclosed_block", stack[i].name, "")
           lg == Append(log, LogEntry("present", stack[i].name, "unclosed_block", "", <<>>))
       IN IF r.fault
          THEN [reps |-> reps, log |-> lg, fault |-> TRUE, msg |-> r.msg]
          ELSE Unclosed(reg, stack, i + 1,
                        Append(reps, [s |-> stack[i].e, e |-> stack[i].e, rep |-> r.frag]), lg)

\* ApplyEdits with every edit taken as an insertion at start
RECURSIVE ApplyEditsInsertOnly(_, _, _)
ApplyEditsInsertOnly(t, reps, i) ==
  IF i > Len(reps) THEN t
  ELSE ApplyEditsInsertOnly(
         SubSeq(t, 1, reps[i].s - 1) \o reps[i].rep \o SubSeq(t, reps[i].s, Len(t)),
         reps, i + 1)

\* result[:start] + replacement + result[end:], one edit after the other
RECURSIVE ApplyEdits(_, _, _)
ApplyEdits(t, reps, i) ==
  IF i > Len(reps) THEN t
  ELSE ApplyEdits(SubSeq(t, 1, reps[i].s - 1) \o reps[i].rep \o SubSeq(t, reps[i].e, Len(t)),
                  reps, i + 1)

\* the replacements of one text, in the order they are appended, with the
\* presenter calls made for them
Replacements(reg, t) ==
  LET Walked(w) ==
        IF w.fault THEN [reps |-> w.reps, log |-> w.log, fault |-> TRUE, msg |-> w.msg]
        ELSE Unclosed(reg, w.stack, 1, w.reps, w.log)
  IN Walked(Walk(reg, Tags(t), 1, <<>>, <<>>, <<>>))

DetectMalformedBlocks(reg, t) ==
  LET Apply(r) ==
        IF r.fault THEN [t |-> t, log |-> r.log, fault |-> TRUE, msg |-> r.msg]
        ELSE [t |-> ApplyEdits(t, SortDown(r.reps, Len(t) + 1), 1),
              log |-> r.log, fault |-> FALSE, msg |-> ""]
  IN Apply(Replacements(reg, t))

\* ------------------------------------------------------------ block expansion
Ok(t, log) == [t |-> t, log |-> log, fault |-> FALSE, msg |-> ""]

RECURSIVE ProcessSpellblocks(_, _)
RECURSIVE RenderSpellblock(_, _, _, _, _)
RECURSIVE SubSelfClosing(_, _, _)
RECURSIVE SubContent(_, _, _)

\* RenderException without the message of the fault handed to _render_error
RenderExceptionNoDetail(reg, name, log, msg) ==
  LET r == RenderError(reg, "render_exception", name, "")
  IN [t |-> r.frag,
      log |-> Append(log, LogEntry("present", name, "render_exception", "", <<>>)),
      fault |-> r.fault, msg |-> r.msg]

\* the except branch of _render_spellblock: the fault becomes a
\* render_exception fragment, unless _render_error faults in turn
RenderException(reg, name, log, msg) ==
  LET r == RenderError(reg, "render_exception", name, msg)
  IN [t |-> r.frag,
      log |-> Append(log, LogEntry("present", name, "render_exception", msg, <<>>)),
      fault |-> r.fault, msg |-> r.msg]

\* BlockNotFound without the block name handed to _render_error
BlockNotFoundAnonymous(reg, name, log) ==
  LET r  == RenderError(reg, "block_not_found", "", "")
      lg == Append(log, LogEntry("present", "", "block_not_found", "", <<>>))
  IN IF r.fault THEN RenderException(reg, name, lg, r.msg) ELSE Ok(r.frag, lg)

\* the if-not-block branch of _render_spellblock; it sits inside the try, so
\* a fault of _render_error is caught by the except branch
BlockNotFound(reg, name, log) ==
  LET r  == RenderError(reg, "block_not_found", name, "")
      lg == Append(log, LogEntry("present", name, "block_not_found", "", <<>>))
  IN IF r.fault THEN RenderException(reg, name, lg, r.msg) ELSE Ok(r.frag, lg)

\* _render_spellblock
RenderSpellblock(reg, name, args, content, isSelfClosing) ==
  LET Create(body, lg, c, kw) ==
        IF c = "raise" THEN RenderException(reg, name, lg, CreateFault(reg, name, kw))
        ELSE IF c = "none" THEN BlockNotFound(reg, name, lg)
        ELSE IF reg[name] = "renderfault"
        THEN RenderException(reg, name, lg, "RenderFault")
        ELSE IF reg[name] = "blank" THEN Ok(<<>>, lg)
        ELSE Ok(<<[k |-> "html", v |-> name, e |-> "", d |-> "", body |-> body]>>, lg)
      Resolve(body, ilog, kw) ==
        Create(body,
               IF DOMAIN kw \cap {"name", "content"} # {} THEN ilog
               ELSE Append(ilog, [LogEntry("resolve", name, "", "", body) EXCEPT !.kw = kw]),
               CallCreateBlock(reg, name, kw), kw)
      Nested(inner) ==
        IF inner.fault THEN RenderException(reg, name, inner.log, inner.msg)
        ELSE Resolve(IF isSelfClosing THEN <<>> ELSE inner.t, inner.log,
                     ParseArguments(args))
  IN Nested(IF content # <<>> /\ ~isSelfClosing
            THEN ProcessSpellblocks(reg, content)
            ELSE Ok(content, <<>>))

\* SPELLBLOCK_SELF_CLOSING_PATTERN.sub(replace_block, text), from index i on
SubSelfClosing(reg, t, i) ==
  LET Replaced(r, m) ==
        IF r.fault THEN r
        ELSE [SubSelfClosing(reg, t, m) EXCEPT !.t = r.t \o @, !.log = r.log \o @]
      Matched(m) ==
        IF m = 0 THEN [SubSelfClosing(reg, t, i + 1) EXCEPT !.t = <<t[i]>> \o @]
        ELSE Replaced(RenderSpellblock(reg, TagName(t, i), ArgsOf(t, i, TRUE),
                                       <<>>, TRUE), m)
  IN IF i > Len(t) THEN Ok(<<>>, <<>>) ELSE Matched(SelfClosingEnd(t, i))

ProcessSelfClosingBlocks(reg, t) == SubSelfClosing(reg, t, 1)

\* SPELLBLOCK_PATTERN anchored at i: an opening tag, then the shortest text
\* up to a {~~}; [s, e) the match, [cs, ce) group 3, or e = 0
ContentMatch(t, i) ==
  LET Span(oe, c) ==
        IF c = 0 THEN [s |-> i, e |-> 0, cs |-> 0, ce |-> 0]
        ELSE [s |-> i, e |-> c + 4, cs |-> oe, ce |-> c]
      Opened(oe) == Span(oe, IF oe = 0 THEN 0 ELSE FirstClosing(t, oe))
  IN Opened(OpeningEnd(t, i))

\* the loop of _process_content_blocks over SPELLBLOCK_PATTERN.finditer
SubContent(reg, t, i) ==
  LET Replaced(r, m) ==
        IF r.fault THEN r
        ELSE [SubContent(reg, t, m.e) EXCEPT !.t = r.t \o @, !.log = r.log \o @]
      Matched(m) ==
        IF m.e = 0 THEN [SubContent(reg, t, i + 1) EXCEPT !.t = <<t[i]>> \o @]
        ELSE Replaced(RenderSpellblock(reg, TagName(t, i), ArgsOf(t, i, FALSE),
                                       SubSeq(t, m.cs, m.ce - 1), FALSE), m)
  IN IF i > Len(t) THEN Ok(<<>>, <<>>) ELSE Matched(ContentMatch(t, i))

ProcessContentBlocks(reg, t) == SubContent(reg, t, 1)

\* _process_spellblocks
ProcessSpellblocks(reg, t) ==
  LET SelfClosed(d, sc) ==
        IF sc.fault THEN [sc EXCEPT !.log = d.log \o @]
        ELSE [ProcessContentBlocks(reg, sc.t) EXCEPT !.log = d.log \o sc.log \o @]
      Detected(d) ==
        IF d.fault THEN d ELSE SelfClosed(d, ProcessSelfClosingBlocks(reg, d.t))
  IN Detected(DetectMalformedBlocks(reg, t))

\* The depth of the calls of _process_spellblocks made, through
\* _render_spellblock (lines 294-295), while _process_spellblocks(t) runs:
\* 0 when it makes none, else one more than the deepest of the calls made
\* for the content of the blocks of t.  ContentDepth is the loop of
\* _process_content_blocks from index i on, left at the first fault.
RECURSIVE ReentryDepth(_, _)
RECURSIVE ContentDepth(_, _, _)
ContentDepth(reg, t, i) ==
  IF i > Len(t) THEN 0
  ELSE LET m == ContentMatch(t, i)
       IN IF m.e = 0 THEN ContentDepth(reg, t, i + 1)
          ELSE LET content == SubSeq(t, m.cs, m.ce - 1)
                   here    == IF content # <<>> THEN 1 + ReentryDepth(reg, content) ELSE 0
                   r       == RenderSpellblock(reg, TagName(t, i), ArgsOf(t, i, FALSE),
                                               content, FALSE)
                   rest    == IF r.fault THEN 0 ELSE ContentDepth(reg, t, m.e)
               IN IF here >= rest THEN here ELSE rest

ReentryDepth(reg, t) ==
  LET d == DetectMalformedBlocks(reg, t)
  IN IF d.fault THEN 0
     ELSE LET sc == ProcessSelfClosingBlocks(reg, d.t)
          IN IF sc.fault THEN 0 ELSE ContentDepth(reg, sc.t, 1)

\* ------------------------------------------------------ _split_by_code_fences
\* text.splitlines(keepends=True), "\n" being the line break of the model
\* SplitLines as text.splitlines() without keepends
RECURSIVE SplitLinesNoEnds(_, _, _)
SplitLinesNoEnds(t, i, cur) ==
  IF i > Len(t) THEN (IF cur = <<>> THEN <<>> ELSE <<cur>>)
  ELSE IF t[i] = Ch("\n") THEN <<cur>> \o SplitLinesNoEnds(t, i + 1, <<>>)
  ELSE SplitLinesNoEnds(t, i + 1, Append(cur, t[i]))

RECURSIVE SplitLines(_, _, _)
SplitLines(t, i, cur) ==
  IF i > Len(t) THEN (IF cur = <<>> THEN <<>> ELSE <<cur>>)
  ELSE IF t[i] = Ch("\n") THEN <<Append(cur, t[i])>> \o SplitLines(t, i + 1, <<>>)
  ELSE SplitLines(t, i + 1, Append(cur, t[i]))

\* CODE_FENCE_PATTERN.match(line.strip())
IsFenceLine(line) ==
  LET n == SkipWs(line, 1)
  IN At(line, n, BQ) /\ At(line, n + 1, BQ) /\ At(line, n + 2, BQ)

Segment(text, code) == [text |-> text, code |-> code]

\* FenceLoop with the fence marker line closing the segment before it
RECURSIVE FenceLoopMarkerLast(_, _, _, _, _)
FenceLoopMarkerLast(lines, i, segs, inCode, cur) ==
  IF i > Len(lines)
  THEN (IF cur # <<>> THEN Append(segs, Segment(cur, inCode)) ELSE segs)
  ELSE IF IsFenceLine(lines[i])
  THEN FenceLoopMarkerLast(lines, i + 1,
                           Append(segs, Segment(cur \o lines[i], inCode)),
                           ~inCode, <<>>)
  ELSE FenceLoopMarkerLast(lines, i + 1, segs, inCode, cur \o lines[i])

\* FenceLoop without the final segment of lines 124-125
RECURSIVE FenceLoopNoFinal(_, _, _, _, _)
FenceLoopNoFinal(lines, i, segs, inCode, cur) ==
  IF i > Len(lines)
  THEN segs
  ELSE IF IsFenceLine(lines[i])
  THEN FenceLoopNoFinal(lines, i + 1,
                        IF cur # <<>> THEN Append(segs, Segment(cur, inCode)) ELSE segs,
                        ~inCode, lines[i])
  ELSE FenceLoopNoFinal(lines, i + 1, segs, inCode, cur \o lines[i])

\* the loop over the lines, then the final segment
RECURSIVE FenceLoop(_, _, _, _, _)
FenceLoop(lines, i, segs, inCode, cur) ==
  IF i > Len(lines)
  THEN (IF cur # <<>> THEN Append(segs, Segment(cur, inCode)) ELSE segs)
  ELSE IF IsFenceLine(lines[i])
  THEN FenceLoop(lines, i + 1,
                 IF cur # <<>> THEN Append(segs, Segment(cur, inCode)) ELSE segs,
                 ~inCode, lines[i])
  ELSE FenceLoop(lines, i + 1, segs, inCode, cur \o lines[i])

SplitByCodeFences(t) == FenceLoop(SplitLines(t, 1, <<>>), 1, <<>>, FALSE, <<>>)

\* "".join(parts)
RECURSIVE Join(_)
Join(parts) == IF parts = <<>> THEN <<>> ELSE Head(parts) \o Join(Tail(parts))

\* --------------------------------------------------------------- documents
\* The documents rendered are the concatenations of at most MaxPieces of
\* these pieces: two opening tags, a self-closing tag, the closing tag, a
\* character of plain text and a fence marker line (newline, three
\* backquotes, newline).
OpenA == <<"{", "~", " ", "a", " ", "~", "}">>
OpenB == <<"{", "~", "b", "~", "}">>
SelfS == <<"{", "~", "s", " ", "/", "~", "}">>
Close == <<"{", "~", "~", "}">>
Text  == <<"x">>
Fence == <<"\n", BQ, BQ, BQ, "\n">>

Pieces == {OpenA, OpenB, SelfS, Close, Text, Fence}

\* the two nested documents of the specification's testable properties
ExampleDocs ==
  { OpenA \o OpenB \o Text \o Close \o Close,
    OpenA \o Text \o OpenB \o Text \o Close \o Text \o Close }

RECURSIVE RawDocs(_)
RawDocs(n) ==
  IF n = 0 THEN {<<>>}
  ELSE LET D == RawDocs(n - 1) IN D \cup {d \o p : d \in D, p \in Pieces}

\* Attribute items: a bare key, key=value, key="value with spaces" (the
\* value ending in a backslash) and key='value'; src is the text of the
\* item, key and val what it stands for.
Items ==
  { [key |-> "x", val |-> Flag, src |-> <<"x">>],
    [key |-> "t", val |-> [flag |-> FALSE, text |-> "a-1"],
     src |-> <<"t", "=", "a", "-", "1">>],
    [key |-> "n-1", val |-> [flag |-> FALSE, text |-> "a =\\"],
     src |-> <<"n", "-", "1", "=", "\"", "a", " ", "=", "\\", "\"">>],
    [key |-> "e", val |-> [flag |-> FALSE, text |-> "s"],
     src |-> <<"e", "=", "'", "s", "'">>] }

\* the sequences of at most n attribute items
RECURSIVE ItemSeqs(_)
ItemSeqs(n) ==
  IF n = 0 THEN {<<>>}
  ELSE LET S == ItemSeqs(n - 1) IN S \cup {Append(s, it) : s \in S, it \in Items}

\* the items separated by whitespace
RECURSIVE AttrText(_)
AttrText(its) ==
  IF its = <<>> THEN <<>>
  ELSE IF Len(its) = 1 THEN its[1].src
  ELSE its[1].src \o <<" ">> \o AttrText(Tail(its))

\* a block a with the attribute items its and content x
AttrDoc(its) == <<"{", "~", " ", "a", " ">> \o AttrText(its) \o <<" ", "~", "}">>
                \o Text \o Close

AttrDocs == {AttrDoc(its) : its \in ItemSeqs(MaxItems)}

\* Documents for single cases: names starting with a digit, a "~" inside
\* the attribute text, attribute keys named as parameters of create_block
\* and of the block class, an attribute value holding a tag, a nested
\* block whose outer closing tag lies behind a fenced region.
CaseDocs ==
  { <<"{", "~", " ", "1", "a", " ", "~", "}">> \o Text \o Close,
    <<"{", "~", "1", "a", " ", "/", "~", "}">>,
    <<"{", "~", " ", "a", " ", "t", "=", "\"", "a", "~", "b", "\"", " ", "~", "}">>
      \o Text \o Close,
    <<"{", "~", "s", " ", "t", "=", "a", "~", "b", " ", "/", "~", "}">>,
    <<"{", "~", " ", "a", " ", "c", "o", "n", "t", "e", "n", "t", " ", "~", "}">>
      \o Text \o Close \o OpenB \o Text \o Close \o SelfS,
    <<"{", "~", "s", " ", "n", "a", "m", "e", "=", "b", " ", "/", "~", "}">> \o SelfS,
    <<"{", "~", "s", " ", "t", "e", "m", "p", "l", "a", "t", "e", "/", "~", "}">>
      \o OpenB \o Close,
    OpenA \o OpenB \o Close \o Fence \o Fence \o Close }

Docs == {Str(d) : d \in RawDocs(MaxPieces) \cup ExampleDocs \cup AttrDocs \cup CaseDocs}

\* The registries a parser is built with: all blocks present; one block
\* unknown and one whose render() raises; no render_error block and a block
\* rendering blank; templates missing from the template directories; a
\* block whose template is missing and one whose render() raises, next to
\* a working render_error block.
Registries ==
  { [n \in {"a", "b", "s", "render_error"} |-> "ok"],
    [n \in {"a", "s", "render_error"} |-> IF n = "s" THEN "renderfault" ELSE "ok"],
    [n \in {"a", "s"} |-> IF n = "s" THEN "blank" ELSE "ok"],
    [n \in {"a", "b", "s", "render_error"} |->
       IF n \in {"a", "render_error"} THEN "notemplate" ELSE "ok"],
    [n \in {"a", "b", "s", "render_error"} |->
       IF n = "a" THEN "notemplate" ELSE IF n = "b" THEN "renderfault" ELSE "ok"] }

\* ------------------------------------------------------------ state machine
VARIABLES
  registry,   \* self.registry
  doc,        \* markdown_text
  pc,         \* position of render()
  segments,   \* segments (line 74)
  idx,        \* index of the segment the for loop of line 78 is at
  cur,        \* text inside _process_spellblocks for segments[idx]
  processed,  \* processed_segments
  out,        \* processed_markdown
  log,        \* calls of registry.create_block for tags and of _render_error
  mdCalls,    \* calls of markdown.markdown
  result      \* "none", "html" or "ParserError"

vars == <<registry, doc, pc, segments, idx, cur, processed, out, log, mdCalls, result>>

\* State outside the single render() call above: the frames of render()
\* calls running together on one parser, and a StyleRegistry.
VARIABLES
  calls,          \* call id -> the local variables of that render() call
  _styles,        \* StyleRegistry._styles
  _loaded_hashes, \* StyleRegistry._loaded_hashes
  returned        \* the last StyleRegistry operation: its name, argument, value

others == <<calls, _styles, _loaded_hashes, returned>>

\* no render() call running beside the one above, no StyleRegistry in use
Idle ==
  /\ calls = <<>>
  /\ _styles = <<>>
  /\ _loaded_hashes = {}
  /\ returned = [op |-> "none"]

Init ==
  /\ registry \in Registries
  /\ doc \in Docs
  /\ pc = "split"
  /\ segments = <<>>
  /\ idx = 1
  /\ cur = <<>>
  /\ processed = <<>>
  /\ out = <<>>
  /\ log = <<>>
  /\ mdCalls = 0
  /\ result = "none"
  /\ Idle

\* line 74
Split ==
  /\ pc = "split"
  /\ segments' = SplitByCodeFences(doc)
  /\ pc' = "loop"
  /\ UNCHANGED <<others, registry, doc, idx, cur, processed, out, log, mdCalls, result>>

\* CopyCodeBlock without the protection: the code block is expanded too
CopyCodeBlockExpanded ==
  /\ pc = "loop" /\ idx <= Len(segments) /\ segments[idx].code
  /\ processed' = Append(processed, ProcessSpellblocks(registry, segments[idx].text).t)
  /\ idx' = idx + 1
  /\ UNCHANGED <<others, registry, doc, pc, segments, cur, out, log, mdCalls, result>>

\* lines 79-80: a code block is appended as it is
CopyCodeBlock ==
  /\ pc = "loop" /\ idx <= Len(segments) /\ segments[idx].code
  /\ processed' = Append(processed, segments[idx].text)
  /\ idx' = idx + 1
  /\ UNCHANGED <<others, registry, doc, pc, segments, cur, out, log, mdCalls, result>>

\* one stage of _process_spellblocks has returned r
Stage(r, next) ==
  /\ cur' = r.t
  /\ log' = log \o r.log
  /\ pc' = IF r.fault THEN "except" ELSE next

\* line 140
Detect ==
  /\ pc = "loop" /\ idx <= Len(segments) /\ ~segments[idx].code
  /\ Stage(DetectMalformedBlocks(registry, segments[idx].text), "selfclosing")
  /\ UNCHANGED <<others, registry, doc, segments, idx, processed, out, mdCalls, result>>

\* line 143
SelfClosing ==
  /\ pc = "selfclosing"
  /\ Stage(ProcessSelfClosingBlocks(registry, cur), "content")
  /\ UNCHANGED <<others, registry, doc, segments, idx, processed, out, mdCalls, result>>

\* line 146, then line 83
Content ==
  /\ pc = "content"
  /\ LET Returned(r) ==
           /\ Stage(r, "loop")
           /\ processed' = IF r.fault THEN processed ELSE Append(processed, r.t)
           /\ idx' = IF r.fault THEN idx ELSE idx + 1
     IN Returned(ProcessContentBlocks(registry, cur))
  /\ UNCHANGED <<others, registry, doc, segments, out, mdCalls, result>>

\* JoinSegments without waiting for the end of the loop over the segments
JoinSegmentsEarly ==
  /\ pc = "loop"
  /\ out' = Join(processed)
  /\ pc' = "markdown"
  /\ UNCHANGED <<others, registry, doc, segments, idx, cur, processed, log, mdCalls, result>>

\* line 86
JoinSegments ==
  /\ pc = "loop" /\ idx > Len(segments)
  /\ out' = Join(processed)
  /\ pc' = "markdown"
  /\ UNCHANGED <<others, registry, doc, segments, idx, cur, processed, log, mdCalls, result>>

\* lines 89-91: the Markdown transform returns HTML or faults
Markdown ==
  /\ pc = "markdown"
  /\ mdCalls' = mdCalls + 1
  /\ \E fault \in BOOLEAN :
       /\ pc' = IF fault THEN "except" ELSE "done"
       /\ result' = IF fault THEN result ELSE "html"
  /\ UNCHANGED <<others, registry, doc, segments, idx, cur, processed, out, log>>

\* Except returning what was rendered so far in place of raising
ExceptReturnsHtml ==
  /\ pc = "except"
  /\ result' = "html"
  /\ pc' = "done"
  /\ UNCHANGED <<others, registry, doc, segments, idx, cur, processed, out, log, mdCalls>>

\* lines 93-95
Except ==
  /\ pc = "except"
  /\ result' = "ParserError"
  /\ pc' = "done"
  /\ UNCHANGED <<others, registry, doc, segments, idx, cur, processed, out, log, mdCalls>>

Next ==
  \/ Split
  \/ CopyCodeBlock
  \/ Detect
  \/ SelfClosing
  \/ Content
  \/ JoinSegments
  \/ Markdown
  \/ Except

Spec == Init /\ [][Next]_vars

TypeOK ==
  /\ pc \in {"split", "loop", "selfclosing", "content", "markdown", "except", "done"}
  /\ result \in {"none", "html", "ParserError"}
  /\ mdCalls \in 0..1

\* ------------------------------------------- render() calls running together
\* Several render() calls on one parser: the registry is the one of the
\* parser, every other variable of render() and of the functions it calls is
\* a local variable of the call, kept in the frame of the call.  A step of a
\* call is one of the steps of render() above, taken on its frame.
MaxCalls == 2

ParDocs ==
  { Str(OpenA \o Text \o Close),
    Str(SelfS \o Fence \o Close),
    Str(OpenB \o Text),
    Str(OpenA \o OpenB \o Text \o Close \o Close) }

\* the frame of a call at the entry of render(markdown_text)
Frame(d) ==
  [doc |-> d, pc |-> "split", segments |-> <<>>, idx |-> 1, cur |-> <<>>,
   processed |-> <<>>, out |-> <<>>, log |-> <<>>, mdCalls |-> 0, result |-> "none"]

InitPar ==
  /\ registry \in Registries
  /\ calls \in [1..MaxCalls -> {Frame(d) : d \in ParDocs}]
  /\ doc = <<>> /\ pc = "done" /\ segments = <<>> /\ idx = 1 /\ cur = <<>>
  /\ processed = <<>> /\ out = <<>> /\ log = <<>> /\ mdCalls = 0 /\ result = "none"
  /\ _styles = <<>> /\ _loaded_hashes = {} /\ returned = [op |-> "none"]

\* the call c goes on with the frame f, nothing else changes
SetCall(c, f) ==
  /\ calls' = [calls EXCEPT ![c] = f]
  /\ UNCHANGED <<vars, _styles, _loaded_hashes, returned>>

\* line 74
CallSplit(c) ==
  /\ calls[c].pc = "split"
  /\ SetCall(c, [calls[c] EXCEPT !.segments = SplitByCodeFences(calls[c].doc),
                                 !.pc = "loop"])

\* lines 79-80
CallCopyCodeBlock(c) ==
  /\ calls[c].pc = "loop" /\ calls[c].idx <= Len(calls[c].segments)
  /\ calls[c].segments[calls[c].idx].code
  /\ SetCall(c, [calls[c] EXCEPT !.processed = Append(@, calls[c].segments[calls[c].idx].text),
                                 !.idx = @ + 1])

\* the frame of c after one stage of _process_spellblocks has returned r
CallStage(c, r, next) ==
  [calls[c] EXCEPT !.cur = r.t, !.log = @ \o r.log,
                   !.pc = IF r.fault THEN "except" ELSE next]

\* CallDetect with the text of _process_spellblocks kept on the parser, for
\* all calls, and not in a local variable
CallDetectShared(c) ==
  /\ calls[c].pc = "loop" /\ calls[c].idx <= Len(calls[c].segments)
  /\ ~calls[c].segments[calls[c].idx].code
  /\ LET Staged(f) ==
           calls' = [k \in DOMAIN calls |->
                       IF k = c THEN f ELSE [calls[k] EXCEPT !.cur = f.cur]]
     IN Staged(CallStage(c, DetectMalformedBlocks(registry,
                               calls[c].segments[calls[c].idx].text), "selfclosing"))
  /\ UNCHANGED <<vars, _styles, _loaded_hashes, returned>>

\* line 140
CallDetect(c) ==
  /\ calls[c].pc = "loop" /\ calls[c].idx <= Len(calls[c].segments)
  /\ ~calls[c].segments[calls[c].idx].code
  /\ SetCall(c, CallStage(c, DetectMalformedBlocks(registry,
                               calls[c].segments[calls[c].idx].text), "selfclosing"))

\* line 143
CallSelfClosing(c) ==
  /\ calls[c].pc = "selfclosing"
  /\ SetCall(c, CallStage(c, ProcessSelfClosingBlocks(registry, calls[c].cur), "content"))

\* line 146 and lines 82-83
CallContent(c) ==
  /\ calls[c].pc = "content"
  /\ LET Returned(r) ==
           [CallStage(c, r, "loop") EXCEPT
              !.processed = IF r.fault THEN @ ELSE Append(@, r.t),
              !.idx = IF r.fault THEN @ ELSE @ + 1]
     IN SetCall(c, Returned(ProcessContentBlocks(registry, calls[c].cur)))

\* line 86
CallJoinSegments(c) ==
  /\ calls[c].pc = "loop" /\ calls[c].idx > Len(calls[c].segments)
  /\ SetCall(c, [calls[c] EXCEPT !.out = Join(calls[c].processed), !.pc = "markdown"])

\* lines 89-91
CallMarkdown(c) ==
  /\ calls[c].pc = "markdown"
  /\ \E fault \in BOOLEAN :
       SetCall(c, [calls[c] EXCEPT !.mdCalls = @ + 1,
                                   !.pc = IF fault THEN "except" ELSE "done",
                                   !.result = IF fault THEN @ ELSE "html"])

\* lines 93-95
CallExcept(c) ==
  /\ calls[c].pc = "except"
  /\ SetCall(c, [calls[c] EXCEPT !.result = "ParserError", !.pc = "done"])

NextPar ==
  \E c \in 1..MaxCalls :
    \/ CallSplit(c)
    \/ CallCopyCodeBlock(c)
    \/ CallDetect(c)
    \/ CallSelfClosing(c)
    \/ CallContent(c)
    \/ CallJoinSegments(c)
    \/ CallMarkdown(c)
    \/ CallExcept(c)

allVars == <<vars, others>>

SpecPar == InitPar /\ [][NextPar]_allVars

\* ------------------------------------------------------------ StyleRegistry
\* A StyleSheet is a record of block_name, css, priority and hash.  The hash
\* is the one given to the constructor, or, when none is given, the MD5
\* digest of the css (model_post_init).  Md5 is one digest per css text of
\* the model.
Md5(css) == "md5:" \o css

StyleSheet(block_name, css, priority, hash) ==
  [block_name |-> block_name, css |-> css, priority |-> priority,
   hash |-> IF hash = "" THEN Md5(css) ELSE hash]

\* the stylesheets handed to register: two block names, three css texts
\* and the three standard priorities with the hash left out, and a
\* stylesheet constructed with a hash that is the digest of another css text
Priorities == {0, 10, 20}

StyleSheets ==
  {StyleSheet(n, c, p, "") : n \in {"a", "b"}, c \in {"c1", "c2", "c3"}, p \in Priorities}
  \cup {StyleSheet("b", "c2", p, Md5("c1")) : p \in Priorities}

InitStyles ==
  /\ _styles = <<>>
  /\ _loaded_hashes = {}
  /\ returned = [op |-> "none"]
  /\ calls = <<>>
  /\ registry \in {[n \in {"a"} |-> "ok"]}
  /\ doc = <<>> /\ pc = "done" /\ segments = <<>> /\ idx = 1 /\ cur = <<>>
  /\ processed = <<>> /\ out = <<>> /\ log = <<>> /\ mdCalls = 0 /\ result = "none"

\* Register taking for a duplicate only a stylesheet of the same block name
RegisterPerBlock(stylesheet) ==
  /\ IF \E i \in 1..Len(_styles) :
          _styles[i].hash = stylesheet.hash /\ _styles[i].block_name = stylesheet.block_name
     THEN /\ returned' = [op |-> "register", arg |-> stylesheet, val |-> FALSE]
          /\ UNCHANGED <<_loaded_hashes, _styles>>
     ELSE /\ _loaded_hashes' = _loaded_hashes \cup {stylesheet.hash}
          /\ _styles' = Append(_styles, stylesheet)
          /\ returned' = [op |-> "register", arg |-> stylesheet, val |-> TRUE]
  /\ UNCHANGED <<vars, calls>>

\* lines 46-61
Register(stylesheet) ==
  /\ IF stylesheet.hash \in _loaded_hashes
     THEN /\ returned' = [op |-> "register", arg |-> stylesheet, val |-> FALSE]
          /\ UNCHANGED <<_loaded_hashes, _styles>>
     ELSE /\ _loaded_hashes' = _loaded_hashes \cup {stylesheet.hash}
          /\ _styles' = Append(_styles, stylesheet)
          /\ returned' = [op |-> "register", arg |-> stylesheet, val |-> TRUE]
  /\ UNCHANGED <<vars, calls>>

\* sorted(xs, key=priority): stable, ascending, over the priorities from p on
RECURSIVE SortedByPriority(_, _)
SortedByPriority(xs, ps) ==
  IF ps = {} THEN <<>>
  ELSE LET p == CHOOSE q \in ps : \A r \in ps : q <= r
       IN SelectSeq(xs, LAMBDA x : x.priority = p) \o SortedByPriority(xs, ps \ {p})

\* GetAllStyles sorting the list of the registry itself (list.sort)
GetAllStylesInPlace ==
  /\ _styles' = SortedByPriority(_styles, Priorities)
  /\ returned' = [op |-> "get_all_styles", val |-> SortedByPriority(_styles, Priorities)]
  /\ UNCHANGED <<vars, calls, _loaded_hashes>>

\* lines 63-70
GetAllStyles ==
  /\ returned' = [op |-> "get_all_styles", val |-> SortedByPriority(_styles, Priorities)]
  /\ UNCHANGED <<vars, calls, _styles, _loaded_hashes>>

\* lines 72-75
Clear ==
  /\ _loaded_hashes' = {}
  /\ _styles' = <<>>
  /\ returned' = [op |-> "clear"]
  /\ UNCHANGED <<vars, calls>>

NextStyles ==
  \/ \E stylesheet \in StyleSheets : Register(stylesheet)
  \/ GetAllStyles
  \/ Clear

SpecStyles == InitStyles /\ [][NextStyles]_allVars

\* =================================================================== claims
\* ---- vocabulary of the claims: nameless LIFO nesting, by counting
\* nesting depth after the first j tags; a closing tag met at depth 0 is an
\* orphan and leaves the depth at 0
RECURSIVE DepthAfter(_, _)
DepthAfter(tags, j) ==
  IF j = 0 THEN 0
  ELSE LET d == DepthAfter(tags, j - 1)
       IN IF tags[j].type = "open" THEN d + 1 ELSE IF d = 0 THEN 0 ELSE d - 1

IsOrphan(tags, j) == tags[j].type = "close" /\ DepthAfter(tags, j - 1) = 0

IsUnclosed(tags, j) ==
  /\ tags[j].type = "open"
  /\ \A m \in j..Len(tags) : DepthAfter(tags, m) >= DepthAfter(tags, j)

\* the closing tag that LIFO matching pairs the opening tag j with (0: none)
LifoPartner(tags, j) ==
  LET ms == {m \in (j + 1)..Len(tags) : DepthAfter(tags, m) < DepthAfter(tags, j)}
  IN IF ms = {} THEN 0 ELSE CHOOSE m \in ms : \A n \in ms : m <= n

\* every closing tag finds an opening tag and none is left open
LifoBalanced(t) ==
  LET tags == Tags(t)
  IN /\ \A j \in 1..Len(tags) : ~IsOrphan(tags, j)
     /\ DepthAfter(tags, Len(tags)) = 0

MaxDepth(t) ==
  LET tags == Tags(t)
      ds   == {DepthAfter(tags, j) : j \in 0..Len(tags)}
  IN CHOOSE d \in ds : \A x \in ds : x <= d

\* an opening, self-closing or closing tag literal among the characters of t
TagLiteralIn(t) ==
  \/ FindIter("open", t, 1) # <<>>
  \/ FindIter("self", t, 1) # <<>>
  \/ FindIter("close", t, 1) # <<>>

\* the segment j has been expanded
Expanded(j) == j \in 1..Len(processed) /\ j <= Len(segments) /\ ~segments[j].code

\* C1: in every scannable segment whose tags are all self-closing or
\* balanced under nameless LIFO matching, at any depth, the expanded text
\* holds no opening, self-closing or closing tag literal.
C1_AllTagsConsumed ==
  \A j \in 1..Len(processed) :
    Expanded(j) /\ LifoBalanced(segments[j].text) => ~TagLiteralIn(processed[j])

\* the matches SPELLBLOCK_PATTERN.finditer yields on t, from index i on
RECURSIVE ContentMatches(_, _)
ContentMatches(t, i) ==
  IF i > Len(t) THEN <<>>
  ELSE LET m == ContentMatch(t, i)
       IN IF m.e = 0 THEN ContentMatches(t, i + 1)
          ELSE <<m>> \o ContentMatches(t, m.e)

\* C2: the expander pairs an opening tag with the closing tag the LIFO stack
\* of the matcher pairs it with: on a balanced text, every pair the expander
\* forms (opening tag at s, closing tag at ce) is a LIFO pair.
C2_ExpanderPairsLifo ==
  pc = "content" /\ LifoBalanced(cur) =>
    LET tags == Tags(cur)
        ms   == ContentMatches(cur, 1)
    IN \A i \in 1..Len(ms) :
         \E j \in 1..Len(tags) :
           /\ tags[j].type = "open" /\ tags[j].s = ms[i].s
           /\ LifoPartner(tags, j) # 0
           /\ tags[LifoPartner(tags, j)].s = ms[i].ce

\* an element of t, at any depth of block content, that is a rendered block
\* named n
RECURSIVE HasBlock(_, _)
HasBlock(t, n) ==
  \E i \in 1..Len(t) :
    t[i].k = "html" /\ (t[i].v = n \/ HasBlock(t[i].body, n))

\* C3: for a block nested in the content of another block the resolver is
\* called for the inner block before the outer one, and the content handed
\* to the outer block holds the inner block's result in place of its tags.
C3_InnerBlockFirst ==
  (/\ pc = "markdown"
   /\ Len(segments) = 1 /\ ~segments[1].code
   /\ LifoBalanced(doc))
  => LET tags == Tags(doc)
     IN \A o, i \in 1..Len(tags) :
          (/\ tags[o].type = "open" /\ tags[i].type = "open"
           /\ o < i /\ i < LifoPartner(tags, o))
          => \E p, q \in 1..Len(log) :
               /\ p < q
               /\ log[p].op = "resolve" /\ log[p].name = tags[i].name
               /\ log[q].op = "resolve" /\ log[q].name = tags[o].name
               /\ ~TagLiteralIn(log[q].body)
               /\ (CreateBlock(registry, tags[i].name) = "block" /\ registry[tags[i].name] = "ok"
                     => HasBlock(log[q].body, tags[i].name))

\* total length of the first j parts
RECURSIVE Offset(_, _)
Offset(parts, j) == IF j = 0 THEN 0 ELSE Offset(parts, j - 1) + Len(parts[j])

\* C4: every protected segment is appended unchanged, and stands character
\* for character at its place in segment order in the text handed to the
\* Markdown transform.
C4_FencedVerbatim ==
  /\ \A j \in 1..Len(processed) :
       j <= Len(segments) /\ segments[j].code => processed[j] = segments[j].text
  /\ pc = "markdown" =>
       /\ Len(processed) = Len(segments)
       /\ Len(out) = Offset(processed, Len(processed))
       /\ \A j \in 1..Len(segments) :
            segments[j].code =>
              SubSeq(out, Offset(processed, j - 1) + 1, Offset(processed, j))
                = segments[j].text

\* a protected segment with tags in it went through next to a scannable
\* segment whose tags were expanded
C4_Witness ==
  /\ pc = "markdown"
  /\ \E j \in 1..Len(segments) : segments[j].code /\ TagLiteralIn(segments[j].text)
  /\ \E p \in 1..Len(log) : log[p].op = "resolve"
  /\ TagLiteralIn(out)

\* C5: a document without any tag reaches the Markdown transform unchanged,
\* with no call of the resolver or the presenter.
C5_NoTagsUnchanged ==
  pc = "markdown" /\ ~TagLiteralIn(doc) => out = doc /\ log = <<>>

\* a document of text and fences, split in several segments, got through
C5_Witness ==
  /\ pc = "markdown" /\ ~TagLiteralIn(doc)
  /\ Len(segments) >= 3
  /\ \E j \in 1..Len(segments) : segments[j].code
  /\ \E i \in 1..Len(doc) : doc[i] = Ch("x")
  /\ out = doc

\* C6: unless the Markdown transform faults, render() returns HTML: a
\* ParserError is raised only after a call of the Markdown transform.
C6_NoParserError ==
  result = "ParserError" => mdCalls = 1

\* ---- what the matcher is to do to a text, position by position
\* a diagnostic fragment of error type et for the block name n, whichever of
\* the error block and the literal fallback produced it
Diag(et, n) == [k |-> "err", v |-> n, e |-> et, d |-> "", body |-> <<>>]

Norm(t) == [i \in 1..Len(t) |-> IF t[i].k = "errfb" THEN [t[i] EXCEPT !.k = "err"] ELSE t[i]]

TagAt(tags, i) == {j \in 1..Len(tags) : tags[j].s = i}

\* t from index i on, every orphaned closing tag replaced over its own span
\* by one orphaned_closing fragment (orph), one unclosed_block fragment with
\* the name put right after the span of every unclosed opening tag (uncl)
RECURSIVE Annotated(_, _, _, _, _)
Annotated(t, tags, i, orph, uncl) ==
  IF i > Len(t) THEN <<>>
  ELSE LET js == TagAt(tags, i)
           j  == CHOOSE x \in js : TRUE
       IN IF js # {} /\ orph /\ IsOrphan(tags, j)
          THEN <<Diag("orphaned_closing", "")>> \o Annotated(t, tags, tags[j].e, orph, uncl)
          ELSE IF js # {} /\ uncl /\ IsUnclosed(tags, j)
          THEN SubSeq(t, i, tags[j].e - 1) \o <<Diag("unclosed_block", tags[j].name)>>
               \o Annotated(t, tags, tags[j].e, orph, uncl)
          ELSE <<t[i]>> \o Annotated(t, tags, i + 1, orph, uncl)

\* t from index i on without its orphaned closing tags
RECURSIVE WithoutOrphans(_, _, _)
WithoutOrphans(t, tags, i) ==
  IF i > Len(t) THEN <<>>
  ELSE LET js == TagAt(tags, i)
           j  == CHOOSE x \in js : TRUE
       IN IF js # {} /\ IsOrphan(tags, j)
          THEN WithoutOrphans(t, tags, tags[j].e)
          ELSE <<t[i]>> \o WithoutOrphans(t, tags, i + 1)

HasOrphan(t) == \E j \in 1..Len(Tags(t)) : IsOrphan(Tags(t), j)

HasUnclosed(t) == \E j \in 1..Len(Tags(t)) : IsUnclosed(Tags(t), j)

IsDiag(x, et) == x.k \in {"err", "errfb"} /\ x.e = et

\* t with every orphaned_closing fragment turned back into {~~}
RECURSIVE OrphansRestored(_)
OrphansRestored(t) ==
  IF t = <<>> THEN <<>>
  ELSE (IF IsDiag(Head(t), "orphaned_closing") THEN Str(Close) ELSE <<Head(t)>>)
       \o OrphansRestored(Tail(t))

\* C7: when the matcher returns, every closing tag met with an empty stack
\* is replaced over its own span by one orphaned_closing fragment and the
\* text outside these spans is as it was (leaving the insertions for
\* unclosed blocks aside); the expanded segment is, these fragments aside,
\* the expansion of the segment without its orphaned closing tags.
C7_OrphanedClosing ==
  /\ pc = "selfclosing" =>
       LET t == segments[idx].text
       IN Norm(SelectSeq(cur, LAMBDA x : ~IsDiag(x, "unclosed_block")))
            = Annotated(t, Tags(t), 1, TRUE, FALSE)
  /\ pc = "loop" /\ idx > 1 /\ Expanded(idx - 1) =>
       LET t == segments[idx - 1].text
       IN SelectSeq(processed[idx - 1], LAMBDA x : ~IsDiag(x, "orphaned_closing"))
            = ProcessSpellblocks(registry, WithoutOrphans(t, Tags(t), 1)).t

\* a segment with an orphaned closing tag and a block after it was expanded
C7_Witness ==
  /\ pc = "loop" /\ Expanded(1)
  /\ HasOrphan(segments[1].text)
  /\ \E i \in 1..Len(processed[1]) : IsDiag(processed[1][i], "orphaned_closing")
  /\ \E i \in 1..Len(processed[1]) : processed[1][i].k = "html"
  /\ \E p \in 1..Len(log) : log[p].op = "resolve"

\* C8: when the matcher returns, every opening tag left on the stack has one
\* unclosed_block fragment with its name right after the end of its span,
\* the tag text itself being unchanged, and nothing else is inserted
\* (the replacements of orphaned closing tags undone).
C8_UnclosedBlock ==
  pc = "selfclosing" =>
    LET t == segments[idx].text
    IN Norm(OrphansRestored(cur)) = Annotated(t, Tags(t), 1, FALSE, TRUE)

\* the matcher returned for a segment with two unclosed opening tags and a
\* closed one
C8_Witness ==
  /\ pc = "selfclosing"
  /\ LET tags == Tags(segments[idx].text)
     IN /\ \E i, j \in 1..Len(tags) : i < j /\ IsUnclosed(tags, i) /\ IsUnclosed(tags, j)
        /\ \E j \in 1..Len(tags) : tags[j].type = "open" /\ ~IsUnclosed(tags, j)
  /\ Len(SelectSeq(cur, LAMBDA x : IsDiag(x, "unclosed_block"))) = 2

\* the resolver returns nothing for n, or creating or rendering n faults
Failing(reg, n) == CreateBlock(reg, n) # "block" \/ reg[n] = "renderfault"

\* the malformed or failing blocks of the text t: unclosed opening tags,
\* orphaned closing tags, and well-formed tags (self-closing, or LIFO
\* matched) whose resolution fails
Failures(reg, t) ==
  LET tags == Tags(t)
      sc   == FindIter("self", t, 1)
  IN Cardinality({j \in 1..Len(tags) : IsOrphan(tags, j) \/ IsUnclosed(tags, j)})
     + Cardinality({j \in 1..Len(tags) :
                      /\ tags[j].type = "open" /\ ~IsUnclosed(tags, j)
                      /\ Failing(reg, tags[j].name)})
     + Cardinality({j \in 1..Len(sc) : Failing(reg, sc[j].name)})

RECURSIVE FailuresUpTo(_, _, _)
FailuresUpTo(reg, segs, j) ==
  IF j = 0 THEN 0
  ELSE FailuresUpTo(reg, segs, j - 1)
       + (IF segs[j].code THEN 0 ELSE Failures(reg, segs[j].text))

\* C9: a render() that reaches the Markdown transform has called the
\* presenter once per unclosed opening tag, orphaned closing tag and
\* well-formed tag whose resolution fails, and for no other tag.
C9_OneFragmentPerFailure ==
  pc = "markdown" =>
    Len(SelectSeq(log, LAMBDA x : x.op = "present"))
      = FailuresUpTo(registry, segments, Len(segments))

\* ---- flat segments: balanced, no block inside the content of a block
Flat(t) == LifoBalanced(t) /\ MaxDepth(t) <= 1

PresenterKind(reg) == IF GetBlock(reg, "render_error") THEN "err" ELSE "errfb"

\* what stands for a well-formed tag named n with the keyword arguments kw
\* and the content body
Fragment(reg, n, kw, body) ==
  IF CallCreateBlock(reg, n, kw) = "none"
  THEN <<[k |-> PresenterKind(reg), v |-> n, e |-> "block_not_found", d |-> "",
          body |-> <<>>]>>
  ELSE IF CallCreateBlock(reg, n, kw) = "raise" \/ reg[n] = "renderfault"
  THEN <<[k |-> PresenterKind(reg), v |-> n, e |-> "render_exception",
          d |-> IF PresenterKind(reg) = "errfb" THEN ""
                ELSE IF CallCreateBlock(reg, n, kw) = "raise"
                THEN CreateFault(reg, n, kw) ELSE "RenderFault",
          body |-> <<>>]>>
  ELSE IF reg[n] = "blank" THEN <<>>
  ELSE <<[k |-> "html", v |-> n, e |-> "", d |-> "", body |-> body]>>

\* a flat text from index i on, every tag region replaced by its fragment
RECURSIVE FlatExpansion(_, _, _)
FlatExpansion(reg, t, i) ==
  IF i > Len(t) THEN <<>>
  ELSE IF SelfClosingEnd(t, i) # 0
  THEN Fragment(reg, TagName(t, i), ParseArguments(ArgsOf(t, i, TRUE)), <<>>)
       \o FlatExpansion(reg, t, SelfClosingEnd(t, i))
  ELSE IF OpeningEnd(t, i) # 0
  THEN LET c == FirstClosing(t, OpeningEnd(t, i))
       IN Fragment(reg, TagName(t, i), ParseArguments(ArgsOf(t, i, FALSE)),
                   FlatExpansion(reg, SubSeq(t, OpeningEnd(t, i), c - 1), 1))
          \o FlatExpansion(reg, t, c + 4)
  ELSE <<t[i]>> \o FlatExpansion(reg, t, i + 1)

\* the resolver and presenter calls of a whole render over the segments
RECURSIVE ExpandLog(_, _, _)
ExpandLog(reg, segs, j) ==
  IF j > Len(segs) THEN <<>>
  ELSE (IF segs[j].code THEN <<>> ELSE ProcessSpellblocks(reg, segs[j].text).log)
       \o ExpandLog(reg, segs, j + 1)

RECURSIVE ResolveNames(_)
ResolveNames(lg) ==
  IF lg = <<>> THEN <<>>
  ELSE (IF Head(lg).op = "resolve" THEN <<Head(lg).name>> ELSE <<>>) \o ResolveNames(Tail(lg))

AllKnown == [n \in {"a", "b", "s", "render_error"} |-> "ok"]

\* C10: when the resolver returns nothing for a tag, the presenter is called
\* next with block_not_found and the tag's name; in a flat segment the tag
\* region is replaced by that fragment and every other tag by its own; and
\* the resolver is called for the same tags, in the same order, as when
\* every name is known.
C10_BlockNotFound ==
  /\ \A p \in 1..Len(log) :
       log[p].op = "resolve" /\ CreateBlock(registry, log[p].name) = "none"
       => /\ p < Len(log)
          /\ log[p + 1] = LogEntry("present", log[p].name, "block_not_found", "", <<>>)
  /\ pc = "loop" /\ idx > 1 /\ Expanded(idx - 1) /\ Flat(segments[idx - 1].text)
       => processed[idx - 1] = FlatExpansion(registry, segments[idx - 1].text, 1)
  /\ pc = "markdown"
       => ResolveNames(log) = ResolveNames(ExpandLog(AllKnown, segments, 1))

\* an unknown block and a known block of one document both got their fragment
C10_Witness ==
  /\ pc = "markdown"
  /\ CreateBlock(registry, "b") = "none"
  /\ \E i \in 1..Len(out) : IsDiag(out[i], "block_not_found") /\ out[i].v = "b"
  /\ \E i \in 1..Len(out) : out[i].k = "html" /\ out[i].v = "a"
  /\ ~TagLiteralIn(out)

\* the message of the fault that creating or rendering the block n with the
\* keyword arguments kw raises, "" when neither faults
FaultOf(reg, n, kw) ==
  IF CallCreateBlock(reg, n, kw) = "raise" THEN CreateFault(reg, n, kw)
  ELSE IF CallCreateBlock(reg, n, kw) = "block" /\ reg[n] = "renderfault"
  THEN "RenderFault"
  ELSE ""

\* the text t as expanded with every block known and working, each rendered
\* block replaced by what the registry reg makes of that block (at any depth
\* of content), each error fragment by the one the presenter of reg gives
RECURSIVE Substituted(_, _)
Substituted(reg, t) ==
  IF t = <<>> THEN <<>>
  ELSE (LET x == Head(t)
        IN IF x.k = "html" THEN Fragment(reg, x.v, <<>>, Substituted(reg, x.body))
           ELSE IF x.k = "err"
           THEN <<[x EXCEPT !.k = PresenterKind(reg),
                            !.d = IF PresenterKind(reg) = "errfb" THEN "" ELSE @]>>
           ELSE <<x>>)
       \o Substituted(reg, Tail(t))

C12_SingleParserError ==
  [][/\ pc = "except" => result = "none" /\ result' = "ParserError" /\ pc' = "done"
     /\ result' = "ParserError" => pc = "except"
     /\ result = "ParserError" => UNCHANGED vars
     /\ result' = "html" => pc = "markdown" /\ result = "none" /\ pc' = "done"]_vars

\* a fault escaped the expansion of a later segment, after a first segment
\* had been processed, and render() raised ParserError
C12_Witness ==
  /\ result = "ParserError" /\ pc = "done"
  /\ mdCalls = 0
  /\ Len(processed) >= 1
  /\ log # <<>>

\* every segment has been processed (a scannable one expanded, a protected
\* one copied) and out is the processed segments put together in their order
AllExpandedAndJoined ==
  /\ Len(processed) = Len(segments)
  /\ \A j \in 1..Len(segments) :
       /\ processed[j] = IF segments[j].code THEN segments[j].text
                         ELSE ProcessSpellblocks(registry, segments[j].text).t
       /\ SubSeq(out, Offset(processed, j - 1) + 1, Offset(processed, j)) = processed[j]
  /\ Len(out) = Offset(processed, Len(processed))

\* C13: the Markdown transform is called only from the state where every
\* segment has been expanded and the segments are joined in order, one call
\* at a time; a render() that returned HTML has called it exactly once, and
\* no render() calls it more than once.
C13_MarkdownOnce ==
  /\ [](/\ mdCalls <= 1
        /\ result = "html" => mdCalls = 1
        /\ pc = "markdown" \/ mdCalls = 1 => AllExpandedAndJoined)
  /\ [][mdCalls' # mdCalls => pc = "markdown" /\ mdCalls = 0 /\ mdCalls' = 1]_vars

\* a render() over several segments, one of them protected and one with a
\* block, returned HTML
C13_Witness ==
  /\ result = "html" /\ mdCalls = 1
  /\ Len(segments) >= 3
  /\ \E j \in 1..Len(segments) : segments[j].code
  /\ \E p \in 1..Len(log) : log[p].op = "resolve"

\* the text parts of the segments, in order
SegmentTexts == [j \in 1..Len(segments) |-> segments[j].text]

\* C14: once the text is split, the text parts of the segments put together
\* in order are the input text.
C14_SegmentsReconstruct ==
  pc # "split" =>
    /\ Len(doc) = Offset(SegmentTexts, Len(segments))
    /\ \A j \in 1..Len(segments) :
         SubSeq(doc, Offset(SegmentTexts, j - 1) + 1, Offset(SegmentTexts, j))
           = segments[j].text

\* a text with an odd number of fence lines and no newline at its end is
\* split in several segments
C14_Witness ==
  /\ pc # "split"
  /\ Len(segments) >= 3
  /\ segments[Len(segments)].code
  /\ doc[Len(doc)] # Ch("\n")
  /\ Join(SegmentTexts) = doc

\* the lines of segment j, and the number of fence marker lines among the
\* first k of lines
SegmentLines(j) == SplitLines(segments[j].text, 1, <<>>)

RECURSIVE Markers(_, _)
Markers(lines, k) ==
  IF k = 0 THEN 0
  ELSE Markers(lines, k - 1) + (IF IsFenceLine(lines[k]) THEN 1 ELSE 0)

\* the lines of the first j segments
RECURSIVE LinesUpTo(_)
LinesUpTo(j) == IF j = 0 THEN <<>> ELSE LinesUpTo(j - 1) \o SegmentLines(j)

\* C15: when _split_by_code_fences has returned (render() is at the start of
\* its loop), the segments are made of whole lines of the text; a line is in a
\* protected segment exactly when the number of fence marker lines up to and
\* including it is odd; consecutive segments alternate; a fence marker line
\* is the first line of its segment, the opening one of a protected segment
\* and the closing one of the scannable segment after it; with an odd number
\* of marker lines the last segment is protected.
C15_FenceToggle ==
  pc = "loop" /\ idx = 1 =>
    LET lines == SplitLines(doc, 1, <<>>)
    IN /\ LinesUpTo(Len(segments)) = lines
       /\ \A j \in 1..Len(segments) :
            /\ segments[j].text # <<>>
            /\ j > 1 => segments[j].code # segments[j - 1].code
            /\ \A m \in 1..Len(SegmentLines(j)) :
                 /\ segments[j].code
                      <=> Markers(lines, Len(LinesUpTo(j - 1)) + m) % 2 = 1
                 /\ IsFenceLine(SegmentLines(j)[m])
                      <=> m = 1 /\ (j > 1 \/ segments[1].code)
       /\ Markers(lines, Len(lines)) % 2 = 1
            => segments # <<>> /\ segments[Len(segments)].code

\* a text with three fence marker lines: the segment of the second marker is
\* scannable and the last segment, after the third, is protected
C15_Witness ==
  /\ pc = "loop" /\ idx = 1
  /\ Markers(SplitLines(doc, 1, <<>>), Len(SplitLines(doc, 1, <<>>))) = 3
  /\ Len(segments) = 4
  /\ ~segments[3].code /\ IsFenceLine(SegmentLines(3)[1])
  /\ segments[4].code /\ Len(SegmentLines(4)) = 2

\* the spans [s, e) of a and b have no offset in common
Disjoint(a, b) == a.e <= b.s \/ b.e <= a.s

\* C16: for the scannable segment the matcher is about to walk, the tags
\* are in strictly increasing order of start and their spans are pairwise
\* disjoint; no tag is an opening match lying inside a self-closing span,
\* every tag and every frame left on the stack being disjoint from every
\* self-closing span.
C16_TokenList ==
  pc = "loop" /\ idx <= Len(segments) /\ ~segments[idx].code =>
    LET t    == segments[idx].text
        tags == Tags(t)
        sc   == FindIter("self", t, 1)
        left == Walk(registry, tags, 1, <<>>, <<>>, <<>>).stack
    IN /\ \A i \in 1..Len(tags) : tags[i].s < tags[i].e
       /\ \A i \in 1..Len(tags) : \A j \in 1..Len(tags) :
            i < j => tags[i].s < tags[j].s /\ Disjoint(tags[i], tags[j])
       /\ \A i \in 1..Len(tags) : \A k \in 1..Len(sc) :
            /\ ~(tags[i].type = "open" /\ tags[i].s >= sc[k].s /\ tags[i].e <= sc[k].e)
            /\ Disjoint(tags[i], sc[k])
       /\ \A i \in 1..Len(left) : \A k \in 1..Len(sc) :
            left[i].type = "open" /\ Disjoint(left[i], sc[k])

\* a segment with a self-closing tag between an opening and a closing tag:
\* the opening match on the self-closing tag is discarded
C16_Witness ==
  /\ pc = "loop" /\ idx <= Len(segments) /\ ~segments[idx].code
  /\ Len(FindIter("self", segments[idx].text, 1)) >= 1
  /\ Len(FindIter("open", segments[idx].text, 1)) > Len(OpenTags(segments[idx].text))
  /\ \E i \in 1..Len(Tags(segments[idx].text)) : \E j \in 1..Len(Tags(segments[idx].text)) :
       /\ i < j
       /\ Tags(segments[idx].text)[i].type = "open"
       /\ Tags(segments[idx].text)[j].type = "close"
       /\ \E k \in 1..Len(FindIter("self", segments[idx].text, 1)) :
            /\ Tags(segments[idx].text)[i].e <= FindIter("self", segments[idx].text, 1)[k].s
            /\ FindIter("self", segments[idx].text, 1)[k].e <= Tags(segments[idx].text)[j].s

\* the words of t that start with a digit
DigitWords(t) ==
  {NameOf(t, i, WordEnd(t, i)) : i \in {i \in 1..Len(t) : t[i] = Ch("1")}}

\* C17: a tag whose name starts with a digit is not a tag: no opening or
\* self-closing match of the matcher has such a name, no block is resolved
\* and no error presented under such a name, and a text that is only such
\* a self-closing tag goes to the Markdown transform as it is.
C17_NoDigitFirstName ==
  /\ pc = "loop" /\ idx <= Len(segments) /\ ~segments[idx].code =>
       \A kind \in {"open", "self"} :
         LET ms == FindIter(kind, segments[idx].text, 1)
         IN \A j \in 1..Len(ms) :
              ~At(segments[idx].text, SkipWs(segments[idx].text, ms[j].s + 2), "1")
  /\ \A p \in 1..Len(log) : log[p].name \notin DigitWords(doc)
  /\ pc = "markdown" /\ doc = Str(<<"{", "~", "1", "a", " ", "/", "~", "}">>)
       => out = doc

\* first index >= i where the tag terminator "~}" starts, or 0
RECURSIVE FirstTerminator(_, _)
FirstTerminator(t, i) ==
  IF i > Len(t) THEN 0
  ELSE IF At(t, i, "~") /\ At(t, i + 1, "}") THEN i ELSE FirstTerminator(t, i + 1)

\* C18: where "{~", optional whitespace and a name are followed by a tag
\* terminator "~}", the opening pattern matches up to the first such
\* terminator, whatever the text in between (here: any text without "{",
\* a "~" not followed by "}" included).
C18_AttributesUpToTerminator ==
  pc = "loop" /\ idx <= Len(segments) /\ ~segments[idx].code =>
    LET t == segments[idx].text
    IN \A i \in 1..Len(t) :
         LET n == SkipWs(t, i + 2)
             w == WordEnd(t, n)
             p == FirstTerminator(t, w)
         IN At(t, i, "{") /\ At(t, i + 1, "~") /\ w > n /\ p # 0
            /\ (\A q \in w..(p - 1) : t[q] # Ch("{"))
            => OpeningEnd(t, i) = p + 2

\* what the attribute items its stand for: the keys of the items, each with
\* the value of the last item of that key
ExpectedMap(its) ==
  [k \in {its[j].key : j \in 1..Len(its)} |->
     its[CHOOSE j \in 1..Len(its) :
           its[j].key = k /\ \A j2 \in (j + 1)..Len(its) : its[j2].key # k].val]

\* the documents of a block a with attribute items: the items, the
\* document, the attribute text and what the items stand for
AttrCases ==
  {[its |-> its, doc |-> Str(AttrDoc(its)), args |-> Str(AttrText(its)),
    map |-> ExpectedMap(its)] : its \in ItemSeqs(MaxItems)}

\* C19: for a block a whose attribute text is a sequence of items separated
\* by whitespace (a bare key, key=value, key="value with spaces",
\* key='value') and whose content is x, _parse_arguments gives the map of
\* exactly the keys of the items, a bare key as True, a quoted value as the
\* text between the quotes with a backslash kept as it is, an unquoted value
\* as its run of characters; the block is created once, under the name a,
\* with these keyword arguments and the content x.
C19_AttributeGrammar ==
  \A c \in AttrCases :
    doc = c.doc =>
      /\ ParseArguments(c.args) = c.map
      /\ \A p \in 1..Len(log) :
           log[p].op = "resolve"
             => /\ log[p].name = "a"
                /\ log[p].kw = c.map
                /\ log[p].body = Str(Text)
                /\ \A p2 \in 1..Len(log) : log[p2].op = "resolve" => p2 = p
      /\ idx > 1 \/ pc \in {"except", "markdown", "done"}
           => \E p \in 1..Len(log) : log[p].op = "resolve"

\* the block a was created with a quoted value ending in a backslash and a
\* bare key
C19_Witness ==
  /\ \E c \in AttrCases : Len(c.its) = 2 /\ doc = c.doc
  /\ result = "html"
  /\ \E p \in 1..Len(log) :
       /\ log[p].op = "resolve" /\ log[p].name = "a" /\ log[p].body = Str(Text)
       /\ DOMAIN log[p].kw = {"n-1", "x"}
       /\ log[p].kw["n-1"] = [flag |-> FALSE, text |-> "a =\\"]
       /\ log[p].kw["x"] = Flag

\* t from index i on with all the edits reps made at once, every offset
\* being one of t: the edit that starts at i puts its text there and the
\* text of t goes on after the end of its range
RECURSIVE Simultaneous(_, _, _)
Simultaneous(t, reps, i) ==
  IF i > Len(t) + 1 THEN <<>>
  ELSE LET R    == {j \in 1..Len(reps) : reps[j].s = i}
           here == IF i <= Len(t) THEN <<t[i]>> ELSE <<>>
       IN IF R = {} THEN here \o Simultaneous(t, reps, i + 1)
          ELSE LET r == reps[CHOOSE j \in R : TRUE]
               IN IF r.e > i THEN r.rep \o Simultaneous(t, reps, r.e)
                  ELSE r.rep \o here \o Simultaneous(t, reps, i + 1)

\* C20: when the matcher returns for a segment, no two of its edits have
\* ranges that overlap or the same start, the order they were applied in is
\* strictly descending in start, and the text it returns is the segment
\* with all the edits made at once at their offsets in the segment.
C20_EditsDisjointDescending ==
  pc = "selfclosing" =>
    LET t      == segments[idx].text
        reps   == Replacements(registry, t).reps
        sorted == SortDown(reps, Len(t) + 1)
    IN /\ \A i \in 1..Len(reps) : \A j \in 1..Len(reps) :
            i # j => Disjoint(reps[i], reps[j]) /\ reps[i].s # reps[j].s
       /\ Len(sorted) = Len(reps)
       /\ \A i \in 1..(Len(sorted) - 1) : sorted[i].s > sorted[i + 1].s
       /\ cur = Simultaneous(t, reps, 1)

\* the matcher returned for a segment with three edits or more, among them
\* a replacement of an orphaned closing tag and an insertion after an
\* unclosed opening tag
C20_Witness ==
  /\ pc = "selfclosing"
  /\ LET reps == Replacements(registry, segments[idx].text).reps
     IN /\ Len(reps) >= 3
        /\ \E i \in 1..Len(reps) : reps[i].s < reps[i].e
        /\ \E i \in 1..Len(reps) : reps[i].s = reps[i].e
  /\ cur # segments[idx].text

\* render(d) run alone on a parser with the registry reg, up to the call of
\* the Markdown transform: the processed segments, the calls made, and
\* whether a fault ended it
RECURSIVE AloneFrom(_, _, _, _, _)
AloneFrom(reg, segs, i, done, lg) ==
  IF i > Len(segs) THEN [processed |-> done, log |-> lg, fault |-> FALSE]
  ELSE IF segs[i].code THEN AloneFrom(reg, segs, i + 1, Append(done, segs[i].text), lg)
  ELSE LET r == ProcessSpellblocks(reg, segs[i].text)
       IN IF r.fault THEN [processed |-> done, log |-> lg \o r.log, fault |-> TRUE]
          ELSE AloneFrom(reg, segs, i + 1, Append(done, r.t), lg \o r.log)

Alone(reg, d) == AloneFrom(reg, SplitByCodeFences(d), 1, <<>>, <<>>)

NoEmptyBlock(t) ==
  LET tags == Tags(t)
  IN \A i \in 1..Len(tags) : \A j \in 1..Len(tags) :
       tags[i].type = "open" /\ tags[j].type = "close" => tags[i].e # tags[j].s

\* C22: with every block registered and rendering, for a segment that was
\* expanded, balanced under nameless LIFO matching and without an empty
\* block, the depth of the calls of _process_spellblocks made from inside
\* it is the nesting depth of its blocks.
C22_ReentryDepthIsNesting ==
  registry = AllKnown /\ pc = "loop" /\ idx > 1 /\ Expanded(idx - 1)
  /\ LifoBalanced(segments[idx - 1].text) /\ NoEmptyBlock(segments[idx - 1].text)
    => ReentryDepth(registry, segments[idx - 1].text) = MaxDepth(segments[idx - 1].text)

\* the hashes of the stored stylesheets
StoredHashes == {_styles[i].hash : i \in 1..Len(_styles)}

\* C23: no two stored stylesheets have the same hash and the loaded hashes
\* are the hashes of the stored stylesheets; a register stores the
\* stylesheet at the end and returns True when no stored stylesheet has its
\* hash, and else returns False and changes nothing; a clear empties both.
C23_RegisterDeduplicates ==
  /\ [](/\ \A i \in 1..Len(_styles) : \A j \in 1..Len(_styles) :
             i # j => _styles[i].hash # _styles[j].hash
        /\ _loaded_hashes = StoredHashes)
  /\ [][/\ returned'.op = "register" =>
             IF returned'.arg.hash \in StoredHashes
             THEN returned'.val = FALSE /\ UNCHANGED <<_styles, _loaded_hashes>>
             ELSE /\ returned'.val = TRUE
                  /\ _styles' = Append(_styles, returned'.arg)
                  /\ _loaded_hashes' = _loaded_hashes \cup {returned'.arg.hash}
        /\ returned'.op = "clear" => _styles' = <<>> /\ _loaded_hashes' = {}]_allVars

\* a stylesheet was refused whose hash is the one of a stored stylesheet of
\* another block name, another priority and another css text
C23_Witness ==
  /\ returned.op = "register"
  /\ returned.val = FALSE
  /\ Len(_styles) >= 2
  /\ \E i \in 1..Len(_styles) :
       /\ _styles[i].hash = returned.arg.hash
       /\ _styles[i].block_name # returned.arg.block_name
       /\ _styles[i].priority # returned.arg.priority
       /\ _styles[i].css # returned.arg.css

\* the place of the stored stylesheet i in the list ordered by priority,
\* stylesheets of one priority in the order they were registered in
PlaceOf(i) ==
  Cardinality({j \in 1..Len(_styles) :
                 \/ _styles[j].priority < _styles[i].priority
                 \/ _styles[j].priority = _styles[i].priority /\ j <= i})

\* C24: get_all_styles returns a list as long as the stored one, with every
\* stored stylesheet at its place in the order of priority (registration
\* order within a priority), and changes neither the stored stylesheets nor
\* the loaded hashes.
C24_GetAllStylesSorted ==
  [][returned'.op = "get_all_styles" =>
       /\ Len(returned'.val) = Len(_styles)
       /\ \A i \in 1..Len(_styles) : returned'.val[PlaceOf(i)] = _styles[i]
       /\ \A i \in 1..(Len(returned'.val) - 1) :
            returned'.val[i].priority <= returned'.val[i + 1].priority
       /\ UNCHANGED <<_styles, _loaded_hashes>>]_allVars

\* get_all_styles returned three stylesheets registered with the priorities
\* 10, 0, 10: the second one first, then the first and the third
C24_Witness ==
  /\ returned.op = "get_all_styles"
  /\ Len(_styles) = 3
  /\ _styles[1].priority = 10 /\ _styles[2].priority = 0 /\ _styles[3].priority = 10
  /\ returned.val = <<_styles[2], _styles[1], _styles[3]>>

\* C25: every call of registry.create_block made for a tag whose block is
\* not registered, or is registered with a template that cannot be
\* retrieved, returns None: no fault comes out of it, and the expander goes
\* on to report block_not_found.
C25_CreateBlockReturnsNone ==
  \A p \in 1..Len(log) :
    /\ log[p].op = "resolve"
    /\ DOMAIN log[p].kw \cap {"name", "content", "template"} = {}
    /\ ~GetBlock(registry, log[p].name) \/ registry[log[p].name] = "notemplate"
    => /\ CallCreateBlock(registry, log[p].name, log[p].kw) = "none"
       /\ p < Len(log)
       /\ log[p + 1].op = "present" /\ log[p + 1].e = "block_not_found"

\* C26: every call of _render_error returns a fragment, and when the
\* render_error block cannot be created or rendered the fragment is the
\* literal fallback naming the error type and the block name.
C26_PresenterNeverRaises ==
  \A p \in 1..Len(log) :
    log[p].op = "present" =>
      LET r == RenderError(registry, log[p].e, log[p].name, log[p].d)
      IN /\ ~r.fault
         /\ CreateBlock(registry, "render_error") # "block"
            => r.frag = <<[k |-> "errfb", v |-> log[p].name, e |-> log[p].e,
                           d |-> "", body |-> <<>>]>>

\* C27: when the matcher returns for a segment: if every closing tag met a
\* frame and no frame is left (by counting, names aside), it made no edit,
\* called nothing and returned the segment as it is; in every segment the
\* text returned is the segment with one fragment over the span of every
\* orphaned closing tag and one right after every opening tag left open
\* under last-in-first-out pairing, its source characters being those of
\* the segment outside the spans of the orphaned closing tags.
C27_MatcherLifoNameless ==
  pc = "selfclosing" =>
    LET t == segments[idx].text
    IN /\ LifoBalanced(t) =>
            /\ cur = t
            /\ Replacements(registry, t).reps = <<>>
            /\ Replacements(registry, t).log = <<>>
       /\ Norm(cur) = Annotated(t, Tags(t), 1, TRUE, TRUE)
       /\ SelectSeq(cur, LAMBDA x : x.k = "ch") = WithoutOrphans(t, Tags(t), 1)

\* the matcher returned a segment of two nested blocks of different names
\* as it is
C27_Witness ==
  /\ pc = "selfclosing"
  /\ LifoBalanced(segments[idx].text)
  /\ MaxDepth(segments[idx].text) = 2
  /\ \E i \in 1..Len(Tags(segments[idx].text)) :
       /\ Tags(segments[idx].text)[i].type = "open"
       /\ Tags(segments[idx].text)[i + 1].type = "open"
       /\ Tags(segments[idx].text)[i].name # Tags(segments[idx].text)[i + 1].name
  /\ cur = segments[idx].text

\* the opening tags of t that are left open under last-in-first-out pairing
UnclosedTags(t) == {j \in 1..Len(Tags(t)) : IsUnclosed(Tags(t), j)}

\* C28: an opening tag reported as unclosed is not expanded: no match of the
\* content pass starts at an opening tag that has its unclosed_block
\* fragment right after it, and the expanded segment holds, for every
\* unclosed opening tag of the segment, its fragment right after the end of
\* a tag literal.
C28_UnclosedNotExpanded ==
  /\ pc = "content" =>
       \A k \in 1..Len(ContentMatches(cur, 1)) :
         ~IsDiag(cur[ContentMatches(cur, 1)[k].cs], "unclosed_block")
  /\ pc = "loop" /\ idx > 1 /\ Expanded(idx - 1) =>
       LET p == processed[idx - 1]
           ds == {q \in 1..Len(p) : IsDiag(p[q], "unclosed_block")}
       IN /\ Cardinality(ds) = Cardinality(UnclosedTags(segments[idx - 1].text))
          /\ \A q \in ds : q > 1 /\ p[q - 1] = Ch("}")

OrphanTags(t) == {j \in 1..Len(Tags(t)) : IsOrphan(Tags(t), j)}

DiagCount(t, et) == Cardinality({q \in 1..Len(t) : IsDiag(t[q], et)})

\* a scannable segment after the segment j holds an orphaned closing tag
CloserBehindFence(j) ==
  \E k \in (j + 1)..Len(segments) :
    ~segments[k].code /\ HasOrphan(segments[k].text)

\* C30: the matcher's reports for a scannable segment are those of a fresh
\* stack over the tags of that segment alone (one unclosed_block per
\* opening tag left on it, one orphaned_closing per closing tag met with
\* the stack empty), and an opening tag reported unclosed whose closing tag
\* lies in a later scannable segment is not taken by the content pass.
C30_SegmentsOnTheirOwn ==
  /\ pc = "selfclosing" =>
       /\ DiagCount(cur, "unclosed_block")
            = Cardinality(UnclosedTags(segments[idx].text))
       /\ DiagCount(cur, "orphaned_closing")
            = Cardinality(OrphanTags(segments[idx].text))
  /\ pc = "content" /\ CloserBehindFence(idx) =>
       \A k \in 1..Len(ContentMatches(cur, 1)) :
         ~IsDiag(cur[ContentMatches(cur, 1)[k].cs], "unclosed_block")

====
